---- MODULE Spec2Model ----
(***************************************************************************)
(* palette_swap.py: the colours of an image are catalogued in order of     *)
(* first occurrence (get_im_data), paired by position with the colours of  *)
(* a destination palette (get_color_map) and substituted pixel by pixel    *)
(* (swap_colors).  The destination palette is read from a text file and    *)
(* passes through a rendered 300x200 strip image (load_palette_file,       *)
(* make_palette) before its colours are catalogued again.                  *)
(*                                                                         *)
(* A colour is a 4-tuple <<r, g, b, a>> of channel values 0..255.  An      *)
(* image is a record [size |-> <<width, height>>, data |-> pixels], the    *)
(* pixels in the row-major order of Image.getdata(); a Python dict is a    *)
(* function whose DOMAIN is the key set.                                   *)
(***************************************************************************)
EXTENDS Integers, Sequences, FiniteSets, TLC

VARIABLES
    pc,            \* position in the running program
    original,      \* the image under transformation (main: original_image)
    palette_file,  \* lines of the palette text file, each a sequence of characters
    glyphs,        \* pixels that ImageDraw.text inks when it renders a caption
    old_colors,    \* swap_colors / get_color_map: old_colors
    new_colors,    \* swap_colors / get_color_map: new_colors
    color_map,     \* swap_colors: color_map
    new_image,     \* swap_colors: new_image, painted through new_data
    step,          \* completed iterations of the pixel loop of swap_colors
    result,        \* the image that reaches the caller (NoImage until then)
    raised_in      \* the function of main whose call raised ("" while none has)

vars == <<pc, original, palette_file, glyphs, old_colors, new_colors,
          color_map, new_image, step, result, raised_in>>

-----------------------------------------------------------------------------
(* Bounds of the model *)

MaxWidth == 2        \* buffers of the catalogue / round-trip runs
MaxHeight == 2
MaxLen == 3          \* colour lists handed to get_color_map
MainMaxWidth == 2    \* one-row originals of the end-to-end runs

-----------------------------------------------------------------------------
(* Colours and images *)

Red == <<255, 0, 0, 255>>
Green == <<0, 255, 0, 255>>
Blue == <<0, 0, 255, 255>>
White == <<255, 255, 255, 255>>

\* Image.new(mode, size) without a colour: every channel 0
Zeroed == <<0, 0, 0, 0>>

\* Image.new("RGBA", original.size, (255, 255, 255, 0))
BlankFill == <<255, 255, 255, 0>>

NoImage == [size |-> <<0, 0>>, data |-> <<>>, none |-> TRUE]

ImageNew(w, h, fill) ==
    [size |-> <<w, h>>, data |-> [i \in 1..(w * h) |-> fill], none |-> FALSE]

Width(im) == im.size[1]
Height(im) == im.size[2]
NumPixels(im) == Width(im) * Height(im)

\* PixelAccess: image.load()[x, y]
PixelIndex(im, x, y) == y * Width(im) + x + 1
GetPixel(im, x, y) == im.data[PixelIndex(im, x, y)]
PutPixel(im, x, y, color) ==
    [im EXCEPT !.data = [@ EXCEPT ![PixelIndex(im, x, y)] = color]]

-----------------------------------------------------------------------------
(* get_im_data *)

\* a membership test that never finds the colour
SeenNever(colors_present, color) == FALSE

\* color in colors_present
Seen(colors_present, color) ==
    \E j \in 1..Len(colors_present) : colors_present[j] = color

\* The loop over data[lo..hi], left to right: "if color not in
\* colors_present: append".  A range whose colours are all present already
\* leaves the list as it is.  Any other range is cut in two, the left part
\* finished before the right part starts, down to the single pixel whose
\* colour is appended; the evaluation depth stays logarithmic in the number
\* of pixels and the order of the visits is that of the loop.
\* (The test on Len(left) only makes the left part be evaluated first.)
RECURSIVE ScanPixels(_, _, _, _)
ScanPixels(colors_present, data, lo, hi) ==
    IF \A i \in lo..hi : Seen(colors_present, data[i]) THEN colors_present
    ELSE IF lo = hi THEN Append(colors_present, data[lo])
    ELSE LET mid == (lo + hi) \div 2
             left == ScanPixels(colors_present, data, lo, mid)
         IN  IF Len(left) >= 0
             THEN ScanPixels(left, data, mid + 1, hi)
             ELSE left

get_im_data(image) == ScanPixels(<<>>, image.data, 1, NumPixels(image))

-----------------------------------------------------------------------------
(* get_color_map *)

EmptyDict == <<>>

\* color_map[key] = value
DictSet(d, key, value) ==
    [k \in (DOMAIN d) \cup {key} |-> IF k = key THEN value ELSE d[k]]

\* an index that is off by one: pairs old_colors[i] with new_colors[i - 1]
MapEntryShifted(old, new, i) ==
    IF i > Len(new) - 1 THEN old[i + 1] ELSE new[IF i = 0 THEN 1 ELSE i]

\* a shortfall that repeats the last new colour instead of keeping the old one
MapEntryClamped(old, new, i) ==
    IF i > Len(new) - 1
    THEN (IF Len(new) = 0 THEN old[i + 1] ELSE new[Len(new)])
    ELSE new[i + 1]

\* the value stored at index i (0-based, as in the code): the branch on
\* "i > len(new_colors) - 1"
MapEntry(old, new, i) ==
    IF i > Len(new) - 1 THEN old[i + 1] ELSE new[i + 1]

\* a loop that stops at the shorter of the two lists
RECURSIVE MapLoopZip(_, _, _, _)
MapLoopZip(d, old, new, i) ==
    IF i >= Len(old) \/ i >= Len(new) THEN d
    ELSE MapLoopZip(DictSet(d, old[i + 1], MapEntry(old, new, i)), old, new, i + 1)

\* for i in range(0, max_colors)
RECURSIVE MapLoop(_, _, _, _)
MapLoop(d, old, new, i) ==
    IF i >= Len(old) THEN d
    ELSE MapLoop(DictSet(d, old[i + 1], MapEntry(old, new, i)), old, new, i + 1)

get_color_map(old, new) == MapLoop(EmptyDict, old, new, 0)

-----------------------------------------------------------------------------
(* make_palette *)

PaletteWidth == 300
PaletteHeight == 200

\* ImageDraw.rectangle((x0, y0, x1, y1), ...): both corners belong to the
\* rectangle, so it covers the columns x0..x1 of the rows y0..y1
CoversColumn(x, x0, x1) == x0 <= x /\ x <= x1
CoversRow(y, y0, y1) == y0 <= y /\ y <= y1

Max(S) == CHOOSE m \in S : \A k \in S : k <= m

\* for color in color_list: draw.rectangle(...); right_shift += 1
\* Every rectangle overwrites what the earlier ones drew, so after the loop
\* a pixel of column x in a row the rectangles cover holds the fill of the
\* last rectangle whose columns include x, or the colour of the new image
\* where none does.
StripColumn(color_list, col_width, x) ==
    LET covering ==
            {right_shift \in 0..(Len(color_list) - 1) :
                CoversColumn(x, col_width * right_shift,
                             col_width * (right_shift + 1))}
    IN  IF covering = {} THEN Zeroed ELSE color_list[Max(covering) + 1]

\* the columns lo..hi of such a row, left to right
RECURSIVE StripRow(_, _, _, _)
StripRow(color_list, col_width, lo, hi) ==
    IF lo = hi THEN <<StripColumn(color_list, col_width, lo)>>
    ELSE LET mid == (lo + hi) \div 2
         IN  StripRow(color_list, col_width, lo, mid) \o
             StripRow(color_list, col_width, mid + 1, hi)

\* The pixel (x, y) of the finished palette.  All the rectangles span the
\* rows 0..palette_size[1].  draw.text((0, 0), disp_text, fill=(255, 255,
\* 255, 255)) comes after the strips: the pixels of the glyphs take the
\* fill colour.  Which pixels the glyphs cover is decided by the font of
\* the installed imaging library; ink is that set of <<x, y>>, empty when
\* there is no text.
PalettePixel(strip_row, ink, x, y) ==
    IF <<x, y>> \in ink THEN White
    ELSE IF CoversRow(y, 0, PaletteHeight) THEN strip_row[x + 1]
    ELSE Zeroed

Raised(error) == [raised |-> error, image |-> NoImage]
Returned(im) == [raised |-> "", image |-> im]

\* make_palette with color_list resolved by the caller (get_im_data(base)
\* when the code is given None) and disp_text given as the pixels it inks
\* (the empty set when disp_text is None).  floor(300 / 0) raises.
make_palette(color_list, ink) ==
    IF Len(color_list) = 0 THEN Raised("ZeroDivisionError")
    ELSE LET col_width == PaletteWidth \div Len(color_list)
             strip_row == StripRow(color_list, col_width, 0, PaletteWidth - 1)
         IN  Returned(
                [size |-> <<PaletteWidth, PaletteHeight>>,
                 data |-> [i \in 1..(PaletteWidth * PaletteHeight) |->
                              PalettePixel(strip_row, ink,
                                           (i - 1) % PaletteWidth,
                                           (i - 1) \div PaletteWidth)],
                 none |-> FALSE])

-----------------------------------------------------------------------------
(* load_palette_file *)

DigitChars == <<"0", "1", "2", "3", "4", "5", "6", "7", "8", "9">>
Whitespace == {" ", "\n"}

IsDigit(ch) == \E d \in 1..10 : DigitChars[d] = ch
DigitValue(ch) == (CHOOSE d \in 1..10 : DigitChars[d] = ch) - 1

\* str.split(','): the pieces between the commas
RECURSIVE split(_, _)
split(s, sep) ==
    IF \A i \in 1..Len(s) : s[i] # sep THEN <<s>>
    ELSE LET i == CHOOSE k \in 1..Len(s) :
                      s[k] = sep /\ \A j \in 1..(k - 1) : s[j] # sep
         IN  <<SubSeq(s, 1, i - 1)>> \o split(SubSeq(s, i + 1, Len(s)), sep)

\* int(val) strips the surrounding whitespace first
RECURSIVE strip(_)
strip(s) ==
    IF Len(s) = 0 THEN s
    ELSE IF s[1] \in Whitespace THEN strip(Tail(s))
    ELSE IF s[Len(s)] \in Whitespace THEN strip(SubSeq(s, 1, Len(s) - 1))
    ELSE s

RECURSIVE DecimalValue(_, _)
DecimalValue(digits, acc) ==
    IF Len(digits) = 0 THEN acc
    ELSE DecimalValue(Tail(digits), 10 * acc + DigitValue(digits[1]))

ValueError == -1

\* int(val) for unsigned decimal text; anything else raises ValueError
int(val) ==
    LET digits == strip(val)
    IN  IF Len(digits) > 0 /\ \A i \in 1..Len(digits) : IsDigit(digits[i])
        THEN DecimalValue(digits, 0)
        ELSE ValueError

\* for val in line: entry.append(int(val))
RECURSIVE ParseValues(_, _)
ParseValues(line, entry) ==
    IF Len(line) = 0 THEN entry
    ELSE ParseValues(Tail(line), Append(entry, int(line[1])))

\* tuple(entry) of one line of the file
ParseLine(entry) == ParseValues(split(entry, ","), <<>>)

LineRaises(entry) ==
    LET parsed == ParseLine(entry)
    IN  \E k \in 1..Len(parsed) : parsed[k] = ValueError

\* for entry in file: ...; colors.append(tuple(entry))
RECURSIVE ReadColors(_, _)
ReadColors(file, colors) ==
    IF Len(file) = 0 THEN colors
    ELSE ReadColors(Tail(file), Append(colors, ParseLine(file[1])))

\* the first line that does not parse ends the call with its ValueError;
\* otherwise make_palette(None, color_list=colors, disp_text="new palette")
load_palette_file(file, ink) ==
    IF \E n \in 1..Len(file) : LineRaises(file[n]) THEN Raised("ValueError")
    ELSE make_palette(ReadColors(file, <<>>), ink)

-----------------------------------------------------------------------------
(* swap_colors: the pixel loop *)

\* dict.get(key, key): an absent key passes the colour through
LookupOrKeep(d, key) ==
    [found |-> TRUE, value |-> IF key \in DOMAIN d THEN d[key] ELSE key]

\* color_map[key]: a KeyError when the key is absent
Lookup(d, key) ==
    IF key \in DOMAIN d
    THEN [found |-> TRUE, value |-> d[key]]
    ELSE [found |-> FALSE, value |-> key]

\* the nested loops run x_coord over the columns and, inside, y_coord over
\* the rows; after `step` iterations the next pixel is this one
x_coord == step \div Height(original)
y_coord == step % Height(original)

TransformPixel ==
    /\ pc = "transform"
    /\ step < NumPixels(new_image)
    /\ LET hit == Lookup(color_map, GetPixel(original, x_coord, y_coord))
       IN  IF hit.found
           THEN /\ new_image' = PutPixel(new_image, x_coord, y_coord, hit.value)
                /\ step' = step + 1
                /\ pc' = pc
           ELSE /\ pc' = "KeyError"
                /\ UNCHANGED <<new_image, step>>
    /\ UNCHANGED <<original, palette_file, glyphs, old_colors, new_colors,
                   color_map, result, raised_in>>

\* return new_image
ReturnImage ==
    /\ pc = "transform"
    /\ step = NumPixels(new_image)
    /\ result' = new_image
    /\ pc' = "done"
    /\ UNCHANGED <<original, palette_file, glyphs, old_colors, new_colors,
                   color_map, new_image, step, raised_in>>

-----------------------------------------------------------------------------
(* main: load_palette_file, then swap_colors up to its pixel loop *)

\* new_palette = load_palette_file(parsed.new_pal_path), then in
\* swap_colors(original_image, new_palette): old_pal, old_colors, new_colors,
\* new_image and color_map.  The first call that raises ends the run.
MainBegin ==
    /\ pc = "main"
    /\ LET new_palette == load_palette_file(palette_file, glyphs)
           old_pal == make_palette(get_im_data(original), {})
       IN  IF new_palette.raised # ""
           THEN /\ pc' = new_palette.raised
                /\ raised_in' = "load_palette_file"
                /\ UNCHANGED <<old_colors, new_colors, color_map, new_image, step>>
           ELSE IF old_pal.raised # ""
           THEN /\ pc' = old_pal.raised
                /\ raised_in' = "swap_colors"
                /\ UNCHANGED <<old_colors, new_colors, color_map, new_image, step>>
           ELSE /\ old_colors' = get_im_data(old_pal.image)
                /\ new_colors' = get_im_data(new_palette.image)
                /\ new_image' = ImageNew(Width(original), Height(original), BlankFill)
                /\ color_map' = get_color_map(old_colors', new_colors')
                /\ step' = 0
                /\ pc' = "transform"
                /\ raised_in' = raised_in
    /\ UNCHANGED <<original, palette_file, glyphs, result>>

-----------------------------------------------------------------------------
(* Inputs *)

RECURSIVE ListsUpTo(_, _)
ListsUpTo(S, n) ==
    IF n = 0 THEN {<<>>}
    ELSE LET shorter == ListsUpTo(S, n - 1)
         IN  shorter \cup {Append(l, c) : l \in shorter, c \in S}

Buffers(S, maxw, maxh) ==
    UNION {{[size |-> <<w, h>>, data |-> d, none |-> FALSE] :
                d \in [1..(w * h) -> S]} : w \in 0..maxw, h \in 0..maxh}

\* an image of PaletteWidth + 1 pixels, no two of the same colour
Gradient ==
    [size |-> <<PaletteWidth + 1, 1>>,
     data |-> [i \in 1..(PaletteWidth + 1) |-> <<i % 256, i \div 256, 0, 255>>],
     none |-> FALSE]

\* the text of a palette file: one "r,g,b,a\n" line for each colour
RECURSIVE Decimal(_)
Decimal(n) ==
    IF n < 10 THEN <<DigitChars[n + 1]>>
    ELSE Append(Decimal(n \div 10), DigitChars[(n % 10) + 1])

FormatLine(c) ==
    Decimal(c[1]) \o <<",">> \o Decimal(c[2]) \o <<",">> \o
    Decimal(c[3]) \o <<",">> \o Decimal(c[4]) \o <<"\n">>

FormatFile(colors) == [n \in 1..Len(colors) |-> FormatLine(colors[n])]

BufferColors == {Red, Green, Blue}
ListColors == {Red, Green, Blue}
MainColors == {Red, Green}
FileColors == {Blue, White}

\* a file that ends with an empty line
TrailingBlankLine == Append(FormatFile(<<Blue>>), <<"\n">>)

\* no line, one line, two lines (the same colour twice among them)
PaletteFiles ==
    {FormatFile(l) : l \in {<<>>} \cup {<<c>> : c \in FileColors}
                              \cup {<<c, d>> : c, d \in FileColors}}
    \cup {TrailingBlankLine}

\* two fonts: one whose caption stays below the top row of the image, one
\* whose tallest glyph reaches it
GlyphMasks == {{<<1, 3>>, <<1, 4>>, <<2, 4>>}, {<<36, 0>>, <<36, 1>>, <<37, 1>>}}

MainImages == {b \in Buffers(MainColors, MainMaxWidth, 1) : Height(b) = 1 \/ Width(b) = 0}

-----------------------------------------------------------------------------
(* Specifications *)

Untouched ==
    /\ raised_in = ""
    /\ color_map = EmptyDict
    /\ new_image = NoImage
    /\ step = 0
    /\ result = NoImage

\* get_im_data on a buffer, then the buffer's catalogue mapped to itself
\* and applied by the pixel loop
Init ==
    /\ pc = "buffer"
    /\ original \in Buffers(BufferColors, MaxWidth, MaxHeight)
    /\ palette_file = <<>>
    /\ glyphs = {}
    /\ old_colors = <<>>
    /\ new_colors = <<>>
    /\ Untouched

CallGetImData ==
    /\ pc = "buffer"
    /\ old_colors' = get_im_data(original)
    /\ pc' = "catalogued"
    /\ UNCHANGED <<original, palette_file, glyphs, new_colors, color_map,
                   new_image, step, result, raised_in>>

RoundTripBegin ==
    /\ pc = "catalogued"
    /\ new_colors' = old_colors
    /\ color_map' = get_color_map(old_colors, old_colors)
    /\ new_image' = ImageNew(Width(original), Height(original), BlankFill)
    /\ step' = 0
    /\ pc' = "transform"
    /\ UNCHANGED <<original, palette_file, glyphs, old_colors, result, raised_in>>

Next == CallGetImData \/ RoundTripBegin \/ TransformPixel \/ ReturnImage

Spec == Init /\ [][Next]_vars

\* get_color_map on two colour lists
InitMap ==
    /\ pc = "lists"
    /\ original = NoImage
    /\ palette_file = <<>>
    /\ glyphs = {}
    /\ old_colors \in ListsUpTo(ListColors, MaxLen)
    /\ new_colors \in ListsUpTo(ListColors, MaxLen)
    /\ Untouched

CallGetColorMap ==
    /\ pc = "lists"
    /\ color_map' = get_color_map(old_colors, new_colors)
    /\ pc' = "mapped"
    /\ UNCHANGED <<original, palette_file, glyphs, old_colors, new_colors,
                   new_image, step, result, raised_in>>

NextMap == CallGetColorMap

SpecMap == InitMap /\ [][NextMap]_vars

\* main on an image file and a palette file
InitMain ==
    /\ pc = "main"
    /\ \/ /\ original \in MainImages
          /\ palette_file \in PaletteFiles
          /\ glyphs \in GlyphMasks
       \/ /\ original = Gradient
          /\ palette_file = FormatFile(<<Blue>>)
          /\ glyphs = CHOOSE g \in GlyphMasks : <<1, 3>> \in g
    /\ old_colors = <<>>
    /\ new_colors = <<>>
    /\ Untouched

NextMain == MainBegin \/ TransformPixel \/ ReturnImage

SpecMain == InitMain /\ [][NextMain]_vars

-----------------------------------------------------------------------------
(* Properties *)

Range(l) == {l[i] : i \in 1..Len(l)}
NoRepeat(l) == \A i, j \in 1..Len(l) : l[i] = l[j] => i = j
FirstIndex(data, color) ==
    CHOOSE i \in 1..Len(data) :
        data[i] = color /\ \A j \in 1..(i - 1) : data[j] # color
Position(l, color) == CHOOSE i \in 1..Len(l) : l[i] = color
Min(a, b) == IF a <= b THEN a ELSE b

\* the pixel that the k-th iteration (k = 0, 1, ...) of the pixel loop reads
LoopPixel(k) == GetPixel(original, k \div Height(original), k % Height(original))
Painted(k) == GetPixel(new_image, k \div Height(original), k % Height(original))

\* C1: in the image produced by load_palette_file followed by swap_colors,
\* every pixel whose original colour is the i-th colour of
\* get_im_data(original) has the colour written on the i-th line of the
\* palette file, for every i up to the number of lines.
PositionalSubstitution ==
    pc = "done" =>
        LET catalog == get_im_data(original)
        IN  \A p \in 1..NumPixels(original) :
                \A i \in 1..Min(Len(palette_file), Len(catalog)) :
                    original.data[p] = catalog[i]
                        => result.data[p] = ParseLine(palette_file[i])

\* C2: when the palette file lists fewer colours than the original has
\* distinct colours, every pixel whose colour sits in the catalogue beyond
\* the number of file colours keeps exactly its original colour in the
\* image returned by swap_colors.
ShortfallKeepsOriginal ==
    pc = "done" =>
        LET catalog == get_im_data(original)
        IN  \A p \in 1..NumPixels(original) :
                Position(catalog, original.data[p]) > Len(palette_file)
                    => result.data[p] = original.data[p]

\* C3: the colour map that swap_colors builds has a key for every colour
\* of the original image, so the lookup of the pixel loop never fails,
\* whatever the number of distinct colours.
LookupNeverFails ==
    /\ pc # "KeyError"
    /\ pc \in {"transform", "done"} =>
           \A p \in 1..NumPixels(original) : original.data[p] \in DOMAIN color_map

\* C4 as claimed: for all lists old_colors and new_colors and every index
\* below the shorter length, get_color_map sends old_colors[i] to
\* new_colors[i].
PairingRuleAllLists ==
    pc = "mapped" =>
        \A i \in 1..Min(Len(old_colors), Len(new_colors)) :
            color_map[old_colors[i]] = new_colors[i]

\* C4 amended: get_color_map sends old_colors[i] to new_colors[i] for every
\* index below the shorter length whose colour does not occur again later
\* in old_colors.
PairingRule ==
    pc = "mapped" =>
        \A i \in 1..Min(Len(old_colors), Len(new_colors)) :
            (\A j \in (i + 1)..Len(old_colors) : old_colors[j] # old_colors[i])
                => color_map[old_colors[i]] = new_colors[i]

PairingRuleWitness ==
    /\ pc = "mapped"
    /\ Len(old_colors) = 3
    /\ Len(new_colors) = 2
    /\ NoRepeat(old_colors)
    /\ color_map[old_colors[1]] # old_colors[1]
    /\ color_map[old_colors[2]] # old_colors[2]
    /\ color_map[old_colors[1]] # color_map[old_colors[2]]

\* C5: when new_colors is shorter than old_colors, get_color_map sends
\* old_colors[i] to itself for every index from len(new_colors) on.
IdentityFallback ==
    (pc = "mapped" /\ Len(new_colors) < Len(old_colors)) =>
        \A i \in (Len(new_colors) + 1)..Len(old_colors) :
            color_map[old_colors[i]] = old_colors[i]

IdentityFallbackWitness ==
    /\ pc = "mapped"
    /\ Len(new_colors) = 1
    /\ Len(old_colors) = 3
    /\ new_colors[1] \notin Range(old_colors)
    /\ old_colors[1] = old_colors[3]
    /\ color_map[old_colors[3]] = old_colors[3]

\* C6: the key set of get_color_map(old_colors, new_colors) is exactly the
\* set of colours of old_colors, for lists of any lengths.
TotalMapping ==
    pc = "mapped" => DOMAIN color_map = Range(old_colors)

TotalMappingWitness ==
    /\ pc = "mapped"
    /\ Len(old_colors) = 3
    /\ Len(new_colors) = 1
    /\ Cardinality(DOMAIN color_map) = 2

\* C7: get_im_data returns every distinct colour of the buffer exactly
\* once, so no more entries than pixels, in the order in which the colours
\* first occur in the traversal of the pixels.
CatalogExtraction ==
    pc # "buffer" =>
        /\ NoRepeat(old_colors)
        /\ Range(old_colors) = Range(original.data)
        /\ Len(old_colors) = Cardinality(Range(original.data))
        /\ Len(old_colors) <= NumPixels(original)
        /\ \A i, j \in 1..Len(old_colors) :
               i < j => FirstIndex(original.data, old_colors[i])
                            < FirstIndex(original.data, old_colors[j])

CatalogExtractionWitness ==
    /\ pc = "catalogued"
    /\ NumPixels(original) = 4
    /\ Len(old_colors) = 2
    /\ original.data[1] = original.data[3]
    /\ original.data[1] # original.data[2]

\* C8: on an empty (0x0) image the catalogue and the mapping are empty,
\* the output is 0x0, and no step of swap_colors raises.
EmptyImageNoError ==
    original.size = <<0, 0>> =>
        /\ raised_in # "swap_colors"
        /\ pc = "done" =>
               /\ old_colors = <<>>
               /\ DOMAIN color_map = {}
               /\ result.size = <<0, 0>>

\* C9: a pixel whose colour is no key of the colour map ends the call in a
\* KeyError: the loop never goes past such a pixel, nothing is painted for
\* it, no image reaches the caller, and nothing runs afterwards.
UnmappedColorFatal ==
    /\ pc = "KeyError" =>
           /\ step < NumPixels(original)
           /\ LoopPixel(step) \notin DOMAIN color_map
           /\ Painted(step) = BlankFill
           /\ result = NoImage
           /\ ~ENABLED NextMain
    /\ pc \in {"transform", "done"} =>
           \A k \in 0..(step - 1) :
               /\ LoopPixel(k) \in DOMAIN color_map
               /\ Painted(k) = color_map[LoopPixel(k)]
    /\ result # NoImage => (pc = "done" /\ step = NumPixels(original))

UnmappedColorFatalWitness ==
    /\ pc = "KeyError"
    /\ raised_in = ""
    /\ step = 0
    /\ result = NoImage

\* C10: the catalogue of a buffer mapped to itself and applied by the pixel
\* loop gives an image of the same dimensions with the original colour at
\* every coordinate.
RoundTripIdentity ==
    /\ pc # "KeyError"
    /\ pc = "done" =>
           /\ result.size = original.size
           /\ \A x \in 0..(Width(original) - 1), y \in 0..(Height(original) - 1) :
                  GetPixel(result, x, y) = GetPixel(original, x, y)

RoundTripIdentityWitness ==
    /\ pc = "done"
    /\ original.size = <<2, 2>>
    /\ Len(old_colors) = 3
    /\ result.data = original.data

====
